---- MODULE Spec2Model ----
(***************************************************************************)
(* A model of nilu/_NILUClient.py: the NILUClient request builder, its six *)
(* public operations, _stringify and _flatten_column.                      *)
(*                                                                         *)
(* Text is modelled at character level: a Python str is a sequence of      *)
(* one-character strings, so that formatting, joining and concatenation    *)
(* are computed rather than assumed.  A Python value is a tagged record.   *)
(* The pandas and requests calls are modelled by what the libraries do     *)
(* (pandas >= 1.2, where explode iterates every list-like cell; requests'  *)
(* raise_for_status).                                                      *)
(***************************************************************************)
EXTENDS Integers, Sequences, FiniteSets, TLC

VARIABLES client, call

vars == <<client, call>>

(***************************************************************************)
(* Python values                                                           *)
(***************************************************************************)
PyNone == [t |-> "none"]
PyNaN == [t |-> "nan"]
PyBool(b) == [t |-> "bool", b |-> b]
PyInt(n) == [t |-> "int", n |-> n]
PyStr(s) == [t |-> "str", s |-> s]
PyList(items) == [t |-> "list", items |-> items]
\* a dict keeps insertion order: a sequence of <<key, value>> pairs
PyDict(items) == [t |-> "dict", items |-> items]

Keys(d) == [i \in 1..Len(d.items) |-> d.items[i][1]]

HasKey(d, k) == \E i \in 1..Len(d.items) : d.items[i][1] = k

GetItem(d, k) == d.items[CHOOSE i \in 1..Len(d.items) : d.items[i][1] = k][2]

(***************************************************************************)
(* Text helpers                                                            *)
(***************************************************************************)
RECURSIVE Flatten(_)
Flatten(ss) == IF ss = <<>> THEN <<>> ELSE Head(ss) \o Flatten(Tail(ss))

\* str.join
RECURSIVE Join(_, _)
Join(sep, ss) ==
    IF ss = <<>> THEN <<>>
    ELSE IF Len(ss) = 1 THEN ss[1]
    ELSE ss[1] \o sep \o Join(sep, Tail(ss))

Digit(n) == <<"0", "1", "2", "3", "4", "5", "6", "7", "8", "9">>[n + 1]

\* str(int) for a non-negative int
RECURSIVE IntStr(_)
IntStr(n) == IF n < 10 THEN <<Digit(n)>> ELSE IntStr(n \div 10) \o <<Digit(n % 10)>>

\* what an f-string substitutes for {v}: str(v)
Format(v) ==
    CASE v.t = "str" -> v.s
      [] v.t = "bool" -> IF v.b THEN <<"T", "r", "u", "e">> ELSE <<"F", "a", "l", "s", "e">>
      [] v.t = "int" -> IntStr(v.n)
      [] v.t = "none" -> <<"N", "o", "n", "e">>

(***************************************************************************)
(* _stringify: parameters is the keyword dict, a sequence of <<name, value>>*)
(* pairs in call order.                                                    *)
(***************************************************************************)
\* a variant that does not leave out the parameters that are None
stringify_keep_none(parameters) ==
    Join(<<"&">>,
         [i \in 1..Len(parameters) |->
            parameters[i][1] \o <<"=">> \o Format(parameters[i][2])])

_stringify(parameters) ==
    Join(<<"&">>,
         [i \in 1..Len(SelectSeq(parameters, LAMBDA p : p[2] # PyNone)) |->
            LET p == SelectSeq(parameters, LAMBDA q : q[2] # PyNone)[i]
            IN  p[1] \o <<"=">> \o Format(p[2])])

(***************************************************************************)
(* Outcomes of a Python call: a returned value or a raised exception.      *)
(***************************************************************************)
Return(v) == [kind |-> "return", value |-> v]

Raise(e) == [kind |-> "raise", exc |-> e]

(***************************************************************************)
(* pandas.  A DataFrame is its column labels, its row labels (index) and   *)
(* its rows; a Series is its row labels and its values.                    *)
(***************************************************************************)
DataFrame(cols, index, rows) == [cols |-> cols, index |-> index, rows |-> rows]

RangeIndex(n) == [i \in 1..n |-> i - 1]

Contains(seq, x) == \E i \in 1..Len(seq) : seq[i] = x

PosOf(seq, x) == CHOOSE i \in 1..Len(seq) : seq[i] = x

\* the labels of seq in first-seen order, without repeats
RECURSIVE Unique(_)
Unique(seq) ==
    IF seq = <<>> THEN <<>>
    ELSE LET front == Unique(SubSeq(seq, 1, Len(seq) - 1))
             last == seq[Len(seq)]
         IN  IF Contains(front, last) THEN front ELSE Append(front, last)

Max(S) == CHOOSE m \in S : \A x \in S : x <= m

\* df[column]
DataFrame_getitem(df, column) ==
    IF ~Contains(df.cols, column) THEN Raise("KeyError")
    ELSE LET c == PosOf(df.cols, column)
         IN  Return([index |-> df.index,
                     values |-> [i \in 1..Len(df.rows) |-> df.rows[i][c]]])

\* pandas._libs.reshape.explode on one cell: every list-like (a list, a dict,
\* which iterates as its keys) yields its elements, an empty one a NaN marker,
\* a scalar itself
ExplodeCell(v) ==
    CASE v.t = "list" -> IF v.items = <<>> THEN <<PyNaN>> ELSE v.items
      [] v.t = "dict" -> IF v.items = <<>> THEN <<PyNaN>> ELSE Keys(v)
      [] OTHER -> <<v>>

\* df.explode(column, ignore_index=True)
DataFrame_explode(df, column) ==
    IF ~Contains(df.cols, column) THEN Raise("KeyError")
    ELSE LET c == PosOf(df.cols, column)
             parts == [i \in 1..Len(df.rows) |->
                         LET cells == ExplodeCell(df.rows[i][c])
                         IN  [j \in 1..Len(cells) |->
                                [df.rows[i] EXCEPT ![c] = cells[j]]]]
             rows == Flatten(parts)
         IN  Return(DataFrame(df.cols, RangeIndex(Len(rows)), rows))

\* df.drop(column, axis="columns")
DataFrame_drop(df, column) ==
    IF ~Contains(df.cols, column) THEN Raise("KeyError")
    ELSE LET keep == SelectSeq([i \in 1..Len(df.cols) |-> i],
                               LAMBDA i : df.cols[i] # column)
         IN  Return(DataFrame([k \in 1..Len(keep) |-> df.cols[keep[k]]],
                              df.index,
                              [i \in 1..Len(df.rows) |->
                                 [k \in 1..Len(keep) |-> df.rows[i][keep[k]]]]))

\* tuple(x), the "last ditch effort" of to_arrays
Tuple(x) ==
    CASE x.t = "str" -> Return([i \in 1..Len(x.s) |-> PyStr(<<x.s[i]>>)])
      [] x.t = "dict" -> Return(Keys(x))
      [] x.t = "list" -> Return(x.items)
      [] OTHER -> Raise("TypeError")

\* pd.DataFrame.from_records(data), data a sequence of values (a decoded JSON
\* array, or the values of a Series labelled 0..n-1)
from_records(data) ==
    IF data = <<>> THEN Return(DataFrame(<<>>, <<>>, <<>>))
    ELSE IF data[1].t = "dict"
    THEN \* _list_of_dict_to_arrays: the union of the keys, missing -> NaN
         IF \E i \in 1..Len(data) : data[i].t # "dict" THEN Raise("AttributeError")
         ELSE LET cols == Unique(Flatten([i \in 1..Len(data) |-> Keys(data[i])]))
              IN  Return(DataFrame(cols, RangeIndex(Len(data)),
                     [i \in 1..Len(data) |->
                        [k \in 1..Len(cols) |->
                           IF HasKey(data[i], cols[k])
                           THEN GetItem(data[i], cols[k]) ELSE PyNaN]]))
    ELSE \* _list_to_arrays over tuple(x): positional columns 0..k-1, padded
         IF \E i \in 1..Len(data) : Tuple(data[i]).kind = "raise" THEN Raise("TypeError")
         ELSE LET tuples == [i \in 1..Len(data) |-> Tuple(data[i]).value]
                  k == Max({Len(tuples[i]) : i \in 1..Len(data)})
              IN  IF k = 0 THEN Return(DataFrame(<<>>, <<>>, <<>>))
                  ELSE Return(DataFrame([j \in 1..k |-> PyInt(j - 1)],
                         RangeIndex(Len(data)),
                         [i \in 1..Len(data) |->
                            [j \in 1..k |->
                               IF j <= Len(tuples[i]) THEN tuples[i][j] ELSE PyNone]]))

IsUnique(seq) == \A i, j \in 1..Len(seq) : seq[i] = seq[j] => i = j

\* pd.concat((a, b), axis="columns"): rows are aligned on the union of the two
\* indexes (outer join), cells missing on one side are NaN
concat(a, b) ==
    IF a.index = b.index
    THEN Return(DataFrame(a.cols \o b.cols, a.index,
                          [i \in 1..Len(a.rows) |-> a.rows[i] \o b.rows[i]]))
    ELSE IF ~IsUnique(a.index) \/ ~IsUnique(b.index) THEN Raise("InvalidIndexError")
    ELSE LET index == Unique(a.index \o b.index)
             side(t, l) == IF Contains(t.index, l) THEN t.rows[PosOf(t.index, l)]
                           ELSE [k \in 1..Len(t.cols) |-> PyNaN]
         IN  Return(DataFrame(a.cols \o b.cols, index,
                       [i \in 1..Len(index) |-> side(a, index[i]) \o side(b, index[i])]))

(***************************************************************************)
(* Objects.  A heap is the sequence of the tables that exist and a         *)
(* reference is the position of one of them; a name (a parameter, a local) *)
(* holds a reference.  A step of a function gives the heap after it and    *)
(* what it returned (a reference) or raised.                               *)
(***************************************************************************)
\* a call that builds a new object out of r: the heap gains the object and the
\* call returns its reference; a call that raises builds nothing
New(heap, r) ==
    IF r.kind = "return"
    THEN [heap |-> Append(heap, r.value), out |-> Return(Len(heap) + 1)]
    ELSE [heap |-> heap, out |-> r]

\* an explode that rewrites the receiver and returns it
explode_inplace(heap, self, column) ==
    LET r == DataFrame_explode(heap[self], column)
    IN  IF r.kind = "return"
        THEN [heap |-> [heap EXCEPT ![self] = r.value], out |-> Return(self)]
        ELSE [heap |-> heap, out |-> r]

\* self.explode(column, ignore_index=True): the exploded rows go to a new
\* DataFrame, the receiver keeps its rows
Call_explode(heap, self, column) ==
    New(heap, DataFrame_explode(heap[self], column))

\* self.drop(column, axis="columns"), inplace left at False: the remaining
\* columns go to a new DataFrame, the receiver keeps its columns
Call_drop(heap, self, column) ==
    New(heap, DataFrame_drop(heap[self], column))

\* pd.DataFrame.from_records(data): a new DataFrame
Call_from_records(heap, data) ==
    New(heap, from_records(data))

\* pd.concat((a, b), axis="columns"): a new DataFrame, a and b are read only
Call_concat(heap, a, b) ==
    New(heap, concat(heap[a], heap[b]))

(***************************************************************************)
(* _flatten_column(df, column), df a reference into heap.                  *)
(***************************************************************************)
\* try: df = df.explode(...)  except KeyError: pass.  When explode returns,
\* the assignment rebinds the local name df to the exploded object; when it
\* raises KeyError the exception is dropped and df still names the caller's
\* object; any other exception leaves the function (propagates).
try_explode(exploded, df) ==
    [heap |-> exploded.heap,
     df |-> IF exploded.out.kind = "return" THEN exploded.out.value ELSE df,
     propagates |-> exploded.out.kind = "raise" /\ exploded.out.exc # "KeyError",
     out |-> exploded.out]

\* return pd.concat((df.drop(...), pd.DataFrame.from_records(df[column])), ...)
\* with the tuple's elements evaluated left to right
return_concat(heap, df, column) ==
    LET dropped == Call_drop(heap, df, column)
        series == DataFrame_getitem(dropped.heap[df], column)
        nested == IF series.kind = "raise"
                  THEN [heap |-> dropped.heap, out |-> series]
                  ELSE Call_from_records(dropped.heap, series.value.values)
    IN  IF dropped.out.kind = "raise" THEN dropped
        ELSE IF nested.out.kind = "raise" THEN nested
        ELSE Call_concat(nested.heap, dropped.out.value, nested.out.value)

_flatten_column(heap, df, column) ==
    LET after_try == try_explode(Call_explode(heap, df, column), df)
    IN  IF after_try.propagates
        THEN [heap |-> after_try.heap, out |-> after_try.out]
        ELSE return_concat(after_try.heap, after_try.df, column)

(***************************************************************************)
(* Dates: pd.to_datetime(x).strftime("%Y-%m-%d").  A date-like input is a  *)
(* str, a datetime.date or a datetime.datetime; the Timestamp keeps the    *)
(* time of day, strftime prints the calendar date only.                    *)
(***************************************************************************)
IsDigit(c) == c \in {"0", "1", "2", "3", "4", "5", "6", "7", "8", "9"}

DigitVal(c) == CHOOSE n \in 0..9 : Digit(n) = c

\* int(s) for a sequence of decimal digits
RECURSIVE ParseInt(_)
ParseInt(s) ==
    IF s = <<>> THEN 0
    ELSE 10 * ParseInt(SubSeq(s, 1, Len(s) - 1)) + DigitVal(s[Len(s)])

AllDigits(s) == \A i \in 1..Len(s) : IsDigit(s[i])

\* the ISO 8601 forms YYYY-MM-DD and YYYY-MM-DD HH:MM (or with a T)
IsIsoDate(s) ==
    /\ Len(s) \in {10, 16}
    /\ AllDigits(SubSeq(s, 1, 4)) /\ s[5] = "-"
    /\ AllDigits(SubSeq(s, 6, 7)) /\ s[8] = "-"
    /\ AllDigits(SubSeq(s, 9, 10))
    /\ ParseInt(SubSeq(s, 6, 7)) \in 1..12
    /\ ParseInt(SubSeq(s, 9, 10)) \in 1..31
    /\ Len(s) = 16 =>
         /\ s[11] \in {" ", "T"}
         /\ AllDigits(SubSeq(s, 12, 13)) /\ s[14] = ":"
         /\ AllDigits(SubSeq(s, 15, 16))
         /\ ParseInt(SubSeq(s, 12, 13)) \in 0..23
         /\ ParseInt(SubSeq(s, 15, 16)) \in 0..59

Timestamp(y, m, d, H, M) == [t |-> "timestamp", y |-> y, m |-> m, d |-> d, H |-> H, M |-> M]

to_datetime(x) ==
    CASE x.t = "date" -> Return(Timestamp(x.y, x.m, x.d, 0, 0))
      [] x.t = "datetime" -> Return(Timestamp(x.y, x.m, x.d, x.H, x.M))
      [] x.t = "str" ->
           IF ~IsIsoDate(x.s) THEN Raise("ValueError")
           ELSE Return(Timestamp(ParseInt(SubSeq(x.s, 1, 4)),
                                 ParseInt(SubSeq(x.s, 6, 7)),
                                 ParseInt(SubSeq(x.s, 9, 10)),
                                 IF Len(x.s) = 16 THEN ParseInt(SubSeq(x.s, 12, 13)) ELSE 0,
                                 IF Len(x.s) = 16 THEN ParseInt(SubSeq(x.s, 15, 16)) ELSE 0))

\* a number printed in a field of the given width, padded with zeros
RECURSIVE ZeroPad(_, _)
ZeroPad(digits, width) ==
    IF Len(digits) >= width THEN digits ELSE ZeroPad(<<"0">> \o digits, width)

\* a variant that prints month and day without padding ("%Y-%-m-%-d")
strftime_unpadded(ts) ==
    IntStr(ts.y) \o <<"-">> \o IntStr(ts.m) \o <<"-">> \o IntStr(ts.d)

\* ts.strftime("%Y-%m-%d")
strftime(ts) ==
    ZeroPad(IntStr(ts.y), 4) \o <<"-">> \o ZeroPad(IntStr(ts.m), 2)
        \o <<"-">> \o ZeroPad(IntStr(ts.d), 2)

(***************************************************************************)
(* requests                                                                *)
(***************************************************************************)
\* a variant that lets client errors through
raise_for_status_5xx_only(status) == 500 <= status /\ status < 600

\* Response.raise_for_status raises HTTPError for 4xx and 5xx
raise_for_status(status) == 400 <= status /\ status < 600

(***************************************************************************)
(* NILUClient                                                              *)
(***************************************************************************)
base_url == <<"h", "t", "t", "p", "s", ":", "/", "/", "a", "p", "i", ".", "n", "i", "l", "u", ".", "n", "o", "/">>

\* NILUClient(): the instance's attributes
NILUClient == [base_url |-> base_url]

\* a variant that keeps the last decoded body on the client
get_url_caching(self, url, query_parameters, response) ==
    [sent |-> <<self.base_url \o url \o <<"?">> \o _stringify(query_parameters)>>,
     params |-> query_parameters,
     self |-> [base_url |-> self.base_url, last |-> response.body],
     decoded |-> ~raise_for_status(response.status),
     outcome |-> IF raise_for_status(response.status) THEN Raise("HTTPError")
                 ELSE from_records(response.body)]

\* self._get_url(url, **query_parameters), the server answering with response
_get_url(self, url, query_parameters, response) ==
    [sent |-> <<self.base_url \o url \o <<"?">> \o _stringify(query_parameters)>>,
     params |-> query_parameters,
     self |-> self,
     decoded |-> ~raise_for_status(response.status),
     outcome |-> IF raise_for_status(response.status) THEN Raise("HTTPError")
                 ELSE from_records(response.body)]

(***************************************************************************)
(* String literals of the source                                           *)
(***************************************************************************)
str_area == <<"a", "r", "e", "a">>

str_utd == <<"u", "t", "d">>

str_component == <<"c", "o", "m", "p", "o", "n", "e", "n", "t">>

str_culture == <<"c", "u", "l", "t", "u", "r", "e">>

str_station == <<"s", "t", "a", "t", "i", "o", "n">>

str_timestep == <<"t", "i", "m", "e", "s", "t", "e", "p">>

str_components == <<"c", "o", "m", "p", "o", "n", "e", "n", "t", "s">>

str_showinvalid == <<"s", "h", "o", "w", "i", "n", "v", "a", "l", "i", "d">>

str_aqis == <<"a", "q", "i", "s">>

str_values == <<"v", "a", "l", "u", "e", "s">>

str_all == <<"a", "l", "l">>

lookup_areas == <<"l", "o", "o", "k", "u", "p", "/", "a", "r", "e", "a", "s">>

lookup_stations == <<"l", "o", "o", "k", "u", "p", "/", "s", "t", "a", "t", "i", "o", "n", "s">>

lookup_components == <<"l", "o", "o", "k", "u", "p", "/", "c", "o", "m", "p", "o", "n", "e", "n", "t", "s">>

lookup_aqis == <<"l", "o", "o", "k", "u", "p", "/", "a", "q", "i", "s">>

lookup_timeseries == <<"l", "o", "o", "k", "u", "p", "/", "t", "i", "m", "e", "s", "e", "r", "i", "e", "s">>

obs_historical == <<"o", "b", "s", "/", "h", "i", "s", "t", "o", "r", "i", "c", "a", "l", "/">>

(***************************************************************************)
(* The public operations.  Each is one synchronous call: the caller gives  *)
(* the arguments, the server gives the response to the request (if one is  *)
(* sent), and `call` records what the call did and how it ended.           *)
(***************************************************************************)
Omitted == [t |-> "omitted"]

NoTable == [t |-> "notable"]

\* a defaulted parameter of a signature
Default(arg, default) == IF arg = Omitted THEN default ELSE arg

\* what the caller of _flatten_column is left with when the call ended as f:
\* its own object (reference 1) after the call, whether the returned reference
\* is its own, and the returned table or the exception
Observed(f) ==
    [input |-> f.heap[1],
     alias |-> f.out.kind = "return" /\ f.out.value = 1,
     outcome |-> IF f.out.kind = "return" THEN Return(f.heap[f.out.value]) ELSE f.out]

\* the record of a call that went through _get_url (g) and, when column is
\* not PyNone, through _flatten_column(<the table>, column).  The table that
\* _get_url returned is the only object when _flatten_column is entered
\* (reference 1); table is that object before the call.
Completed(op, args, response, g, column) ==
    LET flattened == g.outcome.kind = "return" /\ column # PyNone
        f == Observed(_flatten_column(<<g.outcome.value>>, 1, column))
    IN  [op |-> op, args |-> args,
         status |-> response.status, body |-> response.body,
         sent |-> g.sent, params |-> g.params,
         decoded |-> g.decoded, flattened |-> flattened,
         column |-> column,
         table |-> IF flattened THEN g.outcome.value ELSE NoTable,
         input |-> IF flattened THEN f.input ELSE NoTable,
         alias |-> IF flattened THEN f.alias ELSE FALSE,
         outcome |-> IF flattened THEN f.outcome ELSE g.outcome]

\* the record of a call that raised before any request was built
Rejected(op, args, exc) ==
    [op |-> op, args |-> args, status |-> 0, body |-> <<>>,
     sent |-> <<>>, params |-> <<>>,
     decoded |-> FALSE, flattened |-> FALSE, column |-> PyNone,
     table |-> NoTable, input |-> NoTable, alias |-> FALSE,
     outcome |-> Raise(exc)]

(***************************************************************************)
(* Inputs: what callers pass and what the server answers.                  *)
(***************************************************************************)
MaxRows == 2

Statuses == {200, 300, 404, 503}

txt_component == <<"c", "o", "m", "p", "o", "n", "e", "n", "t">>

txt_value == <<"v", "a", "l", "u", "e">>

txt_color == <<"c", "o", "l", "o", "r">>

txt_NO2 == <<"N", "O", "2">>

txt_PM10 == <<"P", "M", "1", "0">>

txt_NOx == <<"N", "O", "x">>

txt_bergen == <<"b", "e", "r", "g", "e", "n">>

txt_en == <<"e", "n">>

txt_Alna == <<"A", "l", "n", "a">>

Value(n) == <<PyStr(txt_value), PyInt(n)>>

Color(n) == <<PyStr(txt_color), PyInt(n)>>

Component(name) == <<PyStr(txt_component), PyStr(name)>>

\* the objects of a JSON array whose objects nest a list or an object under col
NestedRows(col) ==
    { PyDict(<<Component(txt_NO2),
               <<PyStr(col), PyList(<<PyDict(<<Value(1)>>), PyDict(<<Value(2)>>)>>)>> >>),
      PyDict(<< <<PyStr(col), PyList(<<PyDict(<<Value(5)>>), PyDict(<<Color(6)>>),
                                       PyDict(<<Value(7)>>)>>)>>,
               Component(txt_PM10) >>),
      PyDict(<<Component(txt_NO2), <<PyStr(col), PyList(<<>>)>> >>),
      PyDict(<<Component(txt_NO2), <<PyStr(col), PyDict(<<Value(1)>>)>> >>),
      PyDict(<<Component(txt_PM10), <<PyStr(col), PyDict(<<Value(1), Color(2)>>)>> >>),
      PyDict(<<Component(txt_NO2)>>) }

\* the objects of a JSON array of flat records
FlatRows ==
    { PyDict(<<Component(txt_NO2)>>),
      PyDict(<<Component(txt_PM10), Value(1)>>) }

Arrays(rows) == UNION {[1..n -> rows] : n \in 0..MaxRows}

Responses(rows) == [status : Statuses, body : Arrays(rows)]

LookupResponses == Responses(FlatRows)

AqisResponses == Responses(NestedRows(str_aqis))

ValuesResponses == Responses(NestedRows(str_values))

date_string == PyStr(<<"2", "0", "2", "1", "-", "0", "5", "-", "0", "1">>)

date_object == [t |-> "date", y |-> 2021, m |-> 5, d |-> 2]

datetime_object == [t |-> "datetime", y |-> 2021, m |-> 12, d |-> 31, H |-> 23, M |-> 59]

timestamp_string == PyStr(<<"2", "0", "2", "1", "-", "1", "1", "-", "0", "9", " ", "0", "7", ":", "3", "0">>)

DateLikes == {date_string, date_object, datetime_object, timestamp_string}

NotDates == { PyStr(<<"s", "o", "o", "n">>) }

\* the <<fromtime, totime>> pairs callers pass
DateRanges ==
    { <<date_string, date_string>>,
      <<date_object, datetime_object>>,
      <<datetime_object, timestamp_string>>,
      <<timestamp_string, date_object>> }
    \cup { <<x, date_string>> : x \in NotDates }
    \cup { <<date_string, x>> : x \in NotDates }

ComponentLists ==
    { PyNone, PyList(<<>>), PyList(<<PyStr(txt_NOx)>>),
      PyList(<<PyStr(txt_NOx), PyStr(txt_PM10)>>) }

\* a list with an item that is not a name
NotComponentLists == { PyList(<<PyStr(txt_NOx), PyInt(10)>>) }

Idle == [op |-> "idle"]

(***************************************************************************)
(* Actions                                                                 *)
(***************************************************************************)
Init ==
    /\ client = NILUClient
    /\ call = Idle

get_areas ==
    /\ call = Idle
    /\ \E response \in LookupResponses :
         LET g == _get_url(client, lookup_areas, <<>>, response)
         IN  /\ call' = Completed("get_areas", <<>>, response, g, PyNone)
             /\ client' = g.self

get_stations ==
    /\ call = Idle
    /\ \E area \in {PyNone, PyStr(<<>>), PyStr(txt_bergen)},
          utd \in {PyNone, PyBool(TRUE), PyBool(FALSE)},
          response \in LookupResponses :
         LET g == _get_url(client, lookup_stations,
                           << <<str_area, area>>, <<str_utd, utd>> >>, response)
         IN  /\ call' = Completed("get_stations", [area |-> area, utd |-> utd],
                                  response, g, PyNone)
             /\ client' = g.self

get_components ==
    /\ call = Idle
    /\ \E response \in LookupResponses :
         LET g == _get_url(client, lookup_components, <<>>, response)
         IN  /\ call' = Completed("get_components", <<>>, response, g, PyNone)
             /\ client' = g.self

get_air_quality_index ==
    /\ call = Idle
    /\ \E component \in {PyNone, PyStr(txt_NO2)},
          culture \in {PyNone, PyStr(txt_en)},
          response \in AqisResponses :
         LET g == _get_url(client, lookup_aqis,
                           << <<str_component, component>>, <<str_culture, culture>> >>,
                           response)
         IN  /\ call' = Completed("get_air_quality_index",
                                  [component |-> component, culture |-> culture],
                                  response, g, PyStr(str_aqis))
             /\ client' = g.self

get_timeseries ==
    /\ call = Idle
    /\ \E station \in {PyNone, PyStr(txt_Alna)},
          component \in {PyNone, PyStr(txt_NO2)},
          timestep \in {PyNone, PyInt(0), PyInt(3600)},
          response \in LookupResponses :
         LET g == _get_url(client, lookup_timeseries,
                           << <<str_station, station>>, <<str_component, component>>,
                              <<str_timestep, timestep>> >>,
                           response)
         IN  /\ call' = Completed("get_timeseries",
                                  [station |-> station, component |-> component,
                                   timestep |-> timestep],
                                  response, g, PyNone)
             /\ client' = g.self

\* a variant that joins with a comma
join_components_comma(components) ==
    IF components = PyNone THEN Return(PyNone)
    ELSE IF \E i \in 1..Len(components.items) : components.items[i].t # "str"
    THEN Raise("TypeError")
    ELSE Return(PyStr(Join(<<",">>, [i \in 1..Len(components.items) |->
                                       components.items[i].s])))

\* if components is not None: components = ";".join(components)
\* (str.join raises TypeError for an item that is not a str)
join_components(components) ==
    IF components = PyNone THEN Return(PyNone)
    ELSE IF \E i \in 1..Len(components.items) : components.items[i].t # "str"
    THEN Raise("TypeError")
    ELSE Return(PyStr(Join(<<";">>, [i \in 1..Len(components.items) |->
                                       components.items[i].s])))

get_observations ==
    /\ call = Idle
    /\ \E range \in DateRanges,
          station \in {Omitted, PyStr(txt_Alna)},
          components \in ComponentLists \cup NotComponentLists,
          showinvalid \in {PyNone, PyBool(TRUE)},
          response \in ValuesResponses :
         LET fromtime == range[1]
             totime == range[2]
             args == [fromtime |-> fromtime, totime |-> totime, station |-> station,
                      components |-> components, showinvalid |-> showinvalid]
             from == to_datetime(fromtime)
             to == to_datetime(totime)
             joined == join_components(components)
             g == _get_url(client,
                           obs_historical \o strftime(from.value) \o <<"/">>
                               \o strftime(to.value) \o <<"/">>
                               \o Format(Default(station, PyStr(str_all))),
                           << <<str_components, joined.value>>,
                              <<str_showinvalid, showinvalid>> >>,
                           response)
         IN  IF from.kind = "raise"
             THEN call' = Rejected("get_observations", args, from.exc)
                  /\ client' = client
             ELSE IF to.kind = "raise"
             THEN call' = Rejected("get_observations", args, to.exc)
                  /\ client' = client
             ELSE IF joined.kind = "raise"
             THEN call' = Rejected("get_observations", args, joined.exc)
                  /\ client' = client
             ELSE /\ call' = Completed("get_observations", args, response, g,
                                       PyStr(str_values))
                  /\ client' = g.self

\* the caller lets go of what the call returned or raised (the script at the
\* end of the source calls the operations one after another)
Discard ==
    /\ call # Idle
    /\ call' = Idle
    /\ client' = client

Next ==
    \/ get_areas
    \/ get_stations
    \/ get_components
    \/ get_air_quality_index
    \/ get_timeseries
    \/ get_observations
    \/ Discard

Spec == Init /\ [][Next]_vars

(***************************************************************************)
(* Properties of _flatten_column, read off the calls that flattened        *)
(***************************************************************************)
Flattened == call # Idle /\ call.flattened

HasColumn == Contains(call.table.cols, call.column)

\* the cell of input row i in the named column
NestedCell(i) == call.table.rows[i][PosOf(call.table.cols, call.column)]

\* every cell of the named column is a list of objects or a single object
AllNested == \A i \in 1..Len(call.table.rows) : NestedCell(i).t \in {"list", "dict"}

Returned == call.outcome.kind = "return"

Out == call.outcome.value

RECURSIVE Sum(_)
Sum(ns) == IF ns = <<>> THEN 0 ELSE Head(ns) + Sum(Tail(ns))

\* the rows the specification promises for one input row
PromisedRows(i) == IF NestedCell(i).t = "list" THEN Len(NestedCell(i).items) ELSE 1

\* C1: flattening a table that lacks the named column (the empty table
\* included) raises nothing and returns a table with the same columns and rows.
FlattenAbsentColumnIsNoOp ==
    (Flattened /\ ~HasColumn) =>
        /\ Returned
        /\ Out.cols = call.table.cols
        /\ Out.rows = call.table.rows

\* C2: for a table that has the named column, a list of length N (0 included)
\* gives N rows and a single object gives 1 row, so the result has the input
\* row count plus the sum of (list length - 1).
FlattenKeepsRowCount ==
    (Flattened /\ HasColumn /\ AllNested) =>
        /\ Returned
        /\ Len(Out.rows) = Sum([i \in 1..Len(call.table.rows) |-> PromisedRows(i)])
        /\ Len(Out.rows) =
             Len(call.table.rows)
               + Sum([i \in 1..Len(call.table.rows) |-> PromisedRows(i) - 1])

\* the objects nested in input row i, in order
NestedObjects(i) == IF NestedCell(i).t = "list" THEN NestedCell(i).items ELSE <<NestedCell(i)>>

\* the keys of all nested objects of the table in first-seen order
NestedKeys ==
    Unique(Flatten([i \in 1..Len(call.table.rows) |->
              Flatten([j \in 1..Len(NestedObjects(i)) |-> Keys(NestedObjects(i)[j])])]))

OtherColumns == SelectSeq(call.table.cols, LAMBDA c : c # call.column)

\* C3: the table returned for an input that has the named column has no
\* column of that name; its columns are the other input columns followed by
\* the keys of the nested objects.
FlattenReplacesColumn ==
    (Flattened /\ HasColumn /\ AllNested /\ Returned) =>
        /\ ~Contains(Out.cols, call.column)
        /\ Out.cols = OtherColumns \o NestedKeys

\* output row r carries input row i's other columns and the fields of object o
RowCarries(r, i, o) ==
    /\ \A c \in 1..Len(call.table.cols) :
         call.table.cols[c] # call.column =>
            /\ Contains(Out.cols, call.table.cols[c])
            /\ Out.rows[r][PosOf(Out.cols, call.table.cols[c])] = call.table.rows[i][c]
    /\ \A k \in 1..Len(o.items) :
         /\ Contains(Out.cols, o.items[k][1])
         /\ Out.rows[r][PosOf(Out.cols, o.items[k][1])] = o.items[k][2]

\* C5: the rows derived from an input row that holds a list are contiguous,
\* in list order, each with the row's other columns unchanged and the fields
\* of one list element; the result's row labels are 0..n-1.
FlattenExplodesLists ==
    (Flattened /\ HasColumn /\ Returned) =>
        /\ Out.index = RangeIndex(Len(Out.rows))
        /\ \A i \in 1..Len(call.table.rows) :
             NestedCell(i).t = "list" =>
                \E start \in 0..Len(Out.rows) :
                   /\ start + Len(NestedCell(i).items) <= Len(Out.rows)
                   /\ \A j \in 1..Len(NestedCell(i).items) :
                        RowCarries(start + j, i, NestedCell(i).items[j])

\* C8: the object the caller passed holds the same columns, rows and cells
\* after the call as before it, whether the call returned or raised, and a
\* returned table is another object than the caller's.
FlattenLeavesInputUntouched ==
    Flattened =>
        /\ call.input = call.table
        /\ Returned => ~call.alias

\* a call flattened a table with a list of two or more objects and returned
\* more rows than it was given
FlattenExplodedAList ==
    /\ Flattened /\ HasColumn /\ Returned
    /\ \E i \in 1..Len(call.table.rows) :
         NestedCell(i).t = "list" /\ Len(NestedCell(i).items) >= 2
    /\ Len(Out.rows) > Len(call.table.rows)

(***************************************************************************)
(* Reading a URL back: the text before and after a character, and the      *)
(* pieces between separators.                                              *)
(***************************************************************************)
\* the position of the first c in s, 0 when there is none
RECURSIVE IndexFrom(_, _, _)
IndexFrom(s, c, i) ==
    IF i > Len(s) THEN 0 ELSE IF s[i] = c THEN i ELSE IndexFrom(s, c, i + 1)

IndexOf(s, c) == IndexFrom(s, c, 1)

Before(s, c) == LET i == IndexOf(s, c) IN IF i = 0 THEN s ELSE SubSeq(s, 1, i - 1)

After(s, c) == LET i == IndexOf(s, c) IN IF i = 0 THEN <<>> ELSE SubSeq(s, i + 1, Len(s))

RECURSIVE Split(_, _)
Split(s, c) ==
    LET i == IndexOf(s, c)
    IN  IF i = 0 THEN <<s>>
        ELSE <<SubSeq(s, 1, i - 1)>> \o Split(SubSeq(s, i + 1, Len(s)), c)

StartsWith(s, prefix) == Len(prefix) <= Len(s) /\ SubSeq(s, 1, Len(prefix)) = prefix

Sent == call # Idle /\ call.sent # <<>>

\* the query string of the request the call sent
QueryString == After(call.sent[1], "?")

\* the name=value pieces of the query string
Pieces == IF QueryString = <<>> THEN <<>> ELSE Split(QueryString, "&")

\* the parameters the call supplied with a value
Supplied == SelectSeq(call.params, LAMBDA p : p[2] # PyNone)

\* the text a parameter value is written as
ExpectedText(v) ==
    CASE v = PyBool(TRUE) -> <<"T", "r", "u", "e">>
      [] v = PyBool(FALSE) -> <<"F", "a", "l", "s", "e">>
      [] v = PyInt(0) -> <<"0">>
      [] v = PyInt(3600) -> <<"3", "6", "0", "0">>
      [] v.t = "str" -> v.s

\* C4: the query string has no parameter whose value is None, has every
\* parameter with a value (False, 0 and "" included) as name=value in the
\* order supplied, joined by single & with none leading, trailing or doubled;
\* get_stations(area="bergen") sends exactly area=bergen.
QueryStringIsSuppliedPairs ==
    Sent =>
        LET qs == QueryString
            pieces == IF qs = <<>> THEN <<>> ELSE Split(qs, "&")
            supplied == Supplied
        IN  /\ Len(pieces) = Len(supplied)
            /\ \A i \in 1..Len(supplied) :
                 pieces[i] = supplied[i][1] \o <<"=">> \o ExpectedText(supplied[i][2])
            /\ \A i \in 1..Len(call.params) :
                 call.params[i][2] = PyNone =>
                    ~\E k \in 1..Len(pieces) :
                        StartsWith(pieces[k], call.params[i][1] \o <<"=">>)
            /\ qs # <<>> =>
                 /\ qs[1] # "&"
                 /\ qs[Len(qs)] # "&"
                 /\ \A i \in 1..(Len(qs) - 1) : ~(qs[i] = "&" /\ qs[i + 1] = "&")
            /\ (call.op = "get_stations" /\ call.args.area = PyStr(txt_bergen)
                  /\ call.args.utd = PyNone) =>
                 qs = <<"a", "r", "e", "a", "=", "b", "e", "r", "g", "e", "n">>

\* get_stations(area="bergen") sent a request whose query string is area=bergen
StationsInBergenRequested ==
    /\ Sent /\ call.op = "get_stations"
    /\ call.args.area = PyStr(txt_bergen) /\ call.args.utd = PyNone
    /\ QueryString = <<"a", "r", "e", "a", "=", "b", "e", "r", "g", "e", "n">>

HttpErrorRaised ==
    /\ call.outcome = Raise("HTTPError")
    /\ ~call.decoded
    /\ ~call.flattened
    /\ Len(call.sent) = 1

\* C6 as stated: a response with any status outside 2xx makes the operation
\* raise HTTPError with the body not decoded, no flattening, no table and no
\* further request.
HttpErrorOnNon2xx ==
    (Sent /\ call.status \notin 200..299) => HttpErrorRaised

\* C6 as amended: a response with a 4xx or 5xx status makes the operation
\* raise HTTPError with the body not decoded, no flattening, no table and no
\* further request.
HttpErrorOn4xx5xx ==
    (Sent /\ call.status \in 400..599) => HttpErrorRaised

\* get_air_quality_index met a 404 whose body holds rows, and raised HTTPError
AqiMet404 ==
    /\ Sent /\ call.op = "get_air_quality_index"
    /\ call.status = 404 /\ call.body # <<>>
    /\ HttpErrorRaised

\* the path of each operation
PathOf(op) ==
    CASE op = "get_areas" -> lookup_areas
      [] op = "get_stations" -> lookup_stations
      [] op = "get_components" -> lookup_components
      [] op = "get_air_quality_index" -> lookup_aqis
      [] op = "get_timeseries" -> lookup_timeseries
      [] op = "get_observations" -> obs_historical

OneGet ==
    /\ Len(call.sent) = 1
    /\ IF call.op = "get_observations"
       THEN StartsWith(Before(call.sent[1], "?"), base_url \o PathOf(call.op))
       ELSE Before(call.sent[1], "?") = base_url \o PathOf(call.op)

ClientAsConstructed == client = [base_url |-> base_url]

\* C7 as stated: every call, succeeding or failing, sends exactly one GET to
\* the base URL followed by the operation's path, and the client holds its
\* base URL and nothing else afterwards.
OneGetPerCall ==
    /\ ClientAsConstructed
    /\ call # Idle => OneGet

\* the call's arguments could not be converted (a date that does not parse,
\* a component that is not a str), so it raised before a request was built
ArgumentsRejected ==
    /\ call.op = "get_observations"
    /\ \/ call.args.fromtime \in NotDates
       \/ call.args.totime \in NotDates
       \/ call.args.components \in NotComponentLists

\* C7 as amended: every call sends exactly one GET to the base URL followed by
\* the operation's path, whether the exchange succeeds or fails, except a
\* get_observations call whose arguments cannot be converted (fromtime or
\* totime not a date, a component not a str), which raises before any request
\* and sends none; the client holds its base URL and nothing else afterwards.
OneGetPerAcceptedCall ==
    /\ ClientAsConstructed
    /\ call # Idle =>
         IF ArgumentsRejected THEN call.sent = <<>> /\ ~Returned ELSE OneGet

\* get_observations met a 503 and had sent its one request
ObservationsFailedAfterOneGet ==
    /\ Sent /\ call.op = "get_observations"
    /\ call.status = 503 /\ call.outcome = Raise("HTTPError")
    /\ OneGet

\* the calendar date of each date-like input
ExpectedDate(x) ==
    CASE x = date_string ->
           <<"2", "0", "2", "1", "-", "0", "5", "-", "0", "1">>
      [] x = timestamp_string ->
           <<"2", "0", "2", "1", "-", "1", "1", "-", "0", "9">>
      [] x = date_object ->
           <<"2", "0", "2", "1", "-", "0", "5", "-", "0", "2">>
      [] x = datetime_object ->
           <<"2", "0", "2", "1", "-", "1", "2", "-", "3", "1">>

\* C9: for date-like fromtime and totime (and components that are names) the
\* request path is obs/historical/{from}/{to}/{station} with both dates as
\* YYYY-MM-DD, the time of day dropped, and station "all" when none is given.
ObservationPathHasCalendarDates ==
    (call # Idle /\ call.op = "get_observations"
       /\ call.args.fromtime \in DateLikes /\ call.args.totime \in DateLikes
       /\ call.args.components \notin NotComponentLists) =>
        /\ Len(call.sent) = 1
        /\ Before(call.sent[1], "?") =
             base_url \o <<"o", "b", "s", "/", "h", "i", "s", "t", "o", "r", "i", "c", "a", "l", "/">>
               \o ExpectedDate(call.args.fromtime) \o <<"/">>
               \o ExpectedDate(call.args.totime) \o <<"/">>
               \o (IF call.args.station = Omitted THEN <<"a", "l", "l">>
                   ELSE call.args.station.s)

\* get_observations was given a timestamp with a time of day and no station
ObservationsFromTimestamp ==
    /\ Sent /\ call.op = "get_observations"
    /\ call.args.fromtime.t = "datetime" /\ call.args.fromtime.H # 0
    /\ call.args.station = Omitted
    /\ StartsWith(call.sent[1], base_url \o <<"o", "b", "s", "/", "h", "i", "s", "t", "o", "r", "i", "c", "a", "l", "/", "2", "0", "2", "1", "-", "1", "2", "-", "3", "1", "/">>)

\* the components value of each list of names
ExpectedJoined(c) ==
    CASE c = PyList(<<>>) -> <<>>
      [] c = PyList(<<PyStr(txt_NOx)>>) -> <<"N", "O", "x">>
      [] c = PyList(<<PyStr(txt_NOx), PyStr(txt_PM10)>>) -> <<"N", "O", "x", ";", "P", "M", "1", "0">>

ComponentsPieces == SelectSeq(Pieces, LAMBDA p : StartsWith(p, str_components \o <<"=">>))

\* C10: the request of get_observations carries one components parameter, the
\* names in the given order joined by ';', and none when components is not
\* given.
ComponentsJoinedBySemicolon ==
    (call # Idle /\ call.op = "get_observations" /\ ~ArgumentsRejected) =>
        IF call.args.components = PyNone THEN ComponentsPieces = <<>>
        ELSE ComponentsPieces =
               << str_components \o <<"=">> \o ExpectedJoined(call.args.components) >>

\* get_observations was given ["NOx", "PM10"] and sent components=NOx;PM10
ObservationsOfTwoComponents ==
    /\ Sent /\ call.op = "get_observations"
    /\ call.args.components = PyList(<<PyStr(txt_NOx), PyStr(txt_PM10)>>)
    /\ Contains(Pieces, <<"c", "o", "m", "p", "o", "n", "e", "n", "t", "s", "=", "N", "O", "x", ";", "P", "M", "1", "0">>)
====
